---- MODULE Spec2Model ----
(***************************************************************************)
(* Byte-level model of the NPU blob metadata trailer: the writer sequence  *)
(* used by the unit tests, read_metadata_from(std::istream&) with the      *)
(* std::istream semantics it relies on, the metadata factory and           *)
(* Metadata<METADATA_VERSION_1_0>::is_compatible.                          *)
(*                                                                         *)
(* Integers wider than TLC's are kept as little-endian byte sequences of   *)
(* their C++ width (uint32_t: 4 bytes, uint64_t and size_t: 8 bytes), so   *)
(* that wrap-around and encoding are the code's.                           *)
(***************************************************************************)
EXTENDS Integers, Sequences, FiniteSets, TLC

(***************************************************************************)
(* Bounds of the model.                                                    *)
(***************************************************************************)
\* bytes of foreign header that precede the blob in the stream
MaxHeader == 1
\* bytes of compiled payload
MaxPayload == 1
\* bytes that follow the magic marker in the stream
MaxJunk == 1
\* the factories are probed with every major and minor up to this one
MaxProbed == 3
\* calls of is_compatible() on one handle
MaxCalls == 2

(***************************************************************************)
(* Fixed-width unsigned integers as little-endian byte sequences.          *)
(***************************************************************************)
U32 == 4
U64 == 8

RECURSIVE ToBytes(_, _)
\* the w low bytes of the natural number n, least significant first
ToBytes(n, w) == IF w = 0 THEN << >> ELSE <<n % 256>> \o ToBytes(n \div 256, w - 1)

Filled(w, b) == [i \in 1..w |-> b]

\* the value fits in three bytes: every stream offset of the model does
IsSmall(x) == \A i \in 4..Len(x) : x[i] = 0

ToNat(x) == (IF Len(x) >= 1 THEN x[1] ELSE 0)
          + (IF Len(x) >= 2 THEN 256 * x[2] ELSE 0)
          + (IF Len(x) >= 3 THEN 65536 * x[3] ELSE 0)

RECURSIVE AddCarry(_, _, _, _)
AddCarry(a, b, i, c) ==
    IF i > Len(a) THEN << >>
    ELSE LET s == a[i] + b[i] + c
         IN  <<s % 256>> \o AddCarry(a, b, i + 1, s \div 256)

\* a + b modulo 2^(8 * Len(a)); a and b have the same width
AddW(a, b) == AddCarry(a, b, 1, 0)

RECURSIVE SubBorrow(_, _, _, _)
SubBorrow(a, b, i, c) ==
    IF i > Len(a) THEN << >>
    ELSE LET d == a[i] - b[i] - c
         IN  <<(d + 256) % 256>> \o SubBorrow(a, b, i + 1, IF d < 0 THEN 1 ELSE 0)

\* a - b modulo 2^(8 * Len(a)): unsigned subtraction wraps around
SubW(a, b) == SubBorrow(a, b, 1, 0)

RECURSIVE LtFrom(_, _, _)
LtFrom(a, b, i) ==
    IF i = 0 THEN FALSE
    ELSE IF a[i] # b[i] THEN a[i] < b[i]
    ELSE LtFrom(a, b, i - 1)

\* unsigned a < b
LtW(a, b) == LtFrom(a, b, Len(a))

(***************************************************************************)
(* std::string.  A string is kept as its size (a 4-byte value: every size  *)
(* of the model comes from a uint32_t length field or from a short build   *)
(* string) and its bytes up to the last non-NUL one; the bytes after head  *)
(* and below size are NUL.  Two strings are equal iff their records are.   *)
(***************************************************************************)
RECURSIVE StripZ(_)
StripZ(s) == IF s = << >> THEN << >>
             ELSE IF s[Len(s)] = 0 THEN StripZ(SubSeq(s, 1, Len(s) - 1))
             ELSE s

Str(s) == [size |-> ToBytes(Len(s), U32), head |-> StripZ(s)]

\* std::string::resize(n): truncates, or grows with NUL bytes
StrResize(s, n) ==
    [size |-> n,
     head |-> IF IsSmall(n) /\ ToNat(n) < Len(s.head)
              THEN StripZ(SubSeq(s.head, 1, ToNat(n)))
              ELSE s.head]

\* the bytes got stored at the start of the string's buffer (Len(got) <= size)
StrStore(s, got) ==
    [size |-> s.size,
     head |-> StripZ(got \o SubSeq(s.head, Len(got) + 1, Len(s.head)))]

\* the first n bytes of the string's buffer (n <= size, n small)
StrData(s, n) == [i \in 1..n |-> IF i <= Len(s.head) THEN s.head[i] ELSE 0]

(***************************************************************************)
(* std::istream over a byte sequence: [data, pos, fail].  fail stands for  *)
(* failbit or badbit: once set, every later seekg and read does nothing,   *)
(* and tellg returns pos_type(-1).                                         *)
(***************************************************************************)
Min(a, b) == IF a < b THEN a ELSE b

\* stream.tellg() stored in a size_t
TellG(st) == IF st.fail THEN Filled(U64, 255) ELSE ToBytes(st.pos, U64)

\* stream.seekg(off, std::ios::beg) with off a size_t converted to streamoff:
\* an offset outside [0, size] (or negative as a streamoff) sets failbit
SeekBeg(st, off) ==
    IF st.fail THEN st
    ELSE IF IsSmall(off) /\ ToNat(off) <= Len(st.data)
         THEN [st EXCEPT !.pos = ToNat(off)]
         ELSE [st EXCEPT !.fail = TRUE]

\* stream.seekg(0, std::ios::end)
SeekEnd(st) == IF st.fail THEN st ELSE [st EXCEPT !.pos = Len(st.data)]

\* stream.seekg(off, std::ios::cur), off a size_t converted to streamoff
SeekCur(st, off) ==
    IF st.fail THEN st
    ELSE LET to == AddW(ToBytes(st.pos, U64), off)
         IN  IF IsSmall(to) /\ ToNat(to) <= Len(st.data)
             THEN [st EXCEPT !.pos = ToNat(to)]
             ELSE [st EXCEPT !.fail = TRUE]

\* stream.read(buf, n), n a byte count of any width: the stream after the
\* call and the bytes stored in buf.  A short read stores what is available
\* and sets eofbit and failbit.
StreamRead(st, n) ==
    IF st.fail THEN [st |-> st, got |-> << >>]
    ELSE LET avail == Len(st.data) - st.pos
             k     == IF IsSmall(n) THEN Min(ToNat(n), avail) ELSE avail
         IN  [st  |-> [st EXCEPT !.pos = st.pos + k,
                                 !.fail = ~(IsSmall(n) /\ ToNat(n) = k)],
              got |-> SubSeq(st.data, st.pos + 1, st.pos + k)]

\* an integer variable of Len(old) bytes after a read stored got in it
Stored(old, got) == got \o SubSeq(old, Len(got) + 1, Len(old))

\* one entry of the log of read attempts: where the stream stood (-1 when it
\* had failed before and no byte was touched) and how many bytes were asked
ReadAt(st, n) == [at |-> IF st.fail THEN -1 ELSE st.pos, n |-> n]

(***************************************************************************)
(* Version identifier and magic marker (metadata.hpp).                     *)
(***************************************************************************)
\* "OVNPU"
MAGIC_BYTES == <<79, 86, 78, 80, 85>>

\* a packing that keeps only the low byte of each half
make_version_low_bytes(major, minor) == <<minor % 256, 0, major % 256, 0>>

\* the packed uint32_t: major in the high half, minor in the low half
make_version(major, minor) ==
    <<minor % 256, (minor \div 256) % 256, major % 256, (major \div 256) % 256>>

get_major(version) == version[3] + 256 * version[4]

get_minor(version) == version[1] + 256 * version[2]

METADATA_VERSION_1_0 == make_version(1, 0)

CURRENT_METADATA_VERSION == METADATA_VERSION_1_0

\* the version the unit test sets with set_version: make_version(0x7E57, 0xAC3D)
DummyVersion == make_version(32343, 44093)

(***************************************************************************)
(* OpenvinoVersion: [size (_size, uint32_t), version (_version)].          *)
(***************************************************************************)
OpenvinoVersion(version) ==
    [size |-> ToBytes(Len(version), U32), version |-> Str(version)]

\* the bytes OpenvinoVersion::write appends to the stream
OpenvinoVersionWrite(ov) == ov.size \o StrData(ov.version, ToNat(ov.size))

\* OpenvinoVersion::read without the resize (as in the earlier revisions of
\* the file): the string keeps the size it had
OpenvinoVersionReadNoResize(ov, st) ==
    LET r1   == StreamRead(st, ToBytes(U32, U64))
        size == Stored(ov.size, r1.got)
        r2   == StreamRead(r1.st, size)
    IN  [ov    |-> [size |-> size,
                    version |-> StrStore(ov.version,
                                         SubSeq(r2.got, 1, Min(Len(r2.got), ToNat(ov.version.size))))],
         st    |-> r2.st,
         reads |-> <<ReadAt(st, ToBytes(U32, U64)), ReadAt(r1.st, size)>>]

\* OpenvinoVersion::read when resize returns: the object and the stream after
\* it, and the read attempts it made
OpenvinoVersionRead(ov, st) ==
    LET r1   == StreamRead(st, ToBytes(U32, U64))
        size == Stored(ov.size, r1.got)
        r2   == StreamRead(r1.st, size)
    IN  [ov    |-> [size |-> size,
                    version |-> StrStore(StrResize(ov.version, size), r2.got)],
         st    |-> r2.st,
         reads |-> <<ReadAt(st, ToBytes(U32, U64)), ReadAt(r1.st, size)>>]

\* _version.resize(_size) can fail to allocate (std::bad_alloc) when _size is
\* not small; the exception leaves _version as it was
ResizeCanThrow(ov, st) ==
    ~IsSmall(Stored(ov.size, StreamRead(st, ToBytes(U32, U64)).got))

\* OpenvinoVersion::read when resize throws
OpenvinoVersionReadThrows(ov, st) ==
    LET r1 == StreamRead(st, ToBytes(U32, U64))
    IN  [ov    |-> [ov EXCEPT !.size = Stored(ov.size, r1.got)],
         st    |-> r1.st,
         reads |-> <<ReadAt(st, ToBytes(U32, U64))>>]

\* OpenvinoVersion::read of the earlier revisions (model_version.cpp,
\* part_001): no resize, the bytes are stored from &version[0] on in the string
\* as it is.  overrun counts the bytes stored past the string's size() bytes.
OpenvinoVersionRead_unsized(ov, st) ==
    LET r1   == StreamRead(st, ToBytes(U32, U64))
        size == Stored(ov.size, r1.got)
        r2   == StreamRead(r1.st, size)
        room == ToNat(ov.version.size)
    IN  [ov      |-> [size |-> size,
                      version |-> StrStore(ov.version,
                                           SubSeq(r2.got, 1, Min(Len(r2.got), room)))],
         st      |-> r2.st,
         reads   |-> <<ReadAt(st, ToBytes(U32, U64)), ReadAt(r1.st, size)>>,
         overrun |-> IF Len(r2.got) > room THEN Len(r2.got) - room ELSE 0]

(***************************************************************************)
(* Metadata<METADATA_VERSION_1_0> and the factory.                         *)
(***************************************************************************)
Null == [null |-> TRUE]

NoOpt == [nullopt |-> TRUE]

\* the constructor: ovVersion.value_or(ov::get_openvino_version().buildNumber)
Metadata(ovVersion, ovHeaderOffset, blobDataSize, buildNumber) ==
    [null           |-> FALSE,
     version        |-> METADATA_VERSION_1_0,
     ovVersion      |-> OpenvinoVersion(IF ovVersion = NoOpt THEN buildNumber
                                        ELSE ovVersion.value),
     ovHeaderOffset |-> ovHeaderOffset,
     blobDataSize   |-> blobDataSize]

set_version(m, newVersion) == [m EXCEPT !.version = newVersion]

set_ov_version(m, newVersion) == [m EXCEPT !.ovVersion = newVersion]

\* a write that emits the build string before the version identifier
MetadataWrite_string_first(m) == OpenvinoVersionWrite(m.ovVersion) \o m.version

\* the bytes Metadata<METADATA_VERSION_1_0>::write appends to the stream
MetadataWrite(m) == m.version \o OpenvinoVersionWrite(m.ovVersion)

get_blob_size(m) == m.blobDataSize

get_ov_header_offset(m) == m.ovHeaderOffset

get_version(ov) == ov.version

\* create_metadata with its offset and size arguments exchanged
create_metadata_swapped(version, ovHeaderOffset, blobDataSize, buildNumber) ==
    IF version = METADATA_VERSION_1_0
    THEN Metadata(NoOpt, blobDataSize, ovHeaderOffset, buildNumber)
    ELSE Null

create_metadata(version, ovHeaderOffset, blobDataSize, buildNumber) ==
    IF version = METADATA_VERSION_1_0
    THEN Metadata(NoOpt, ovHeaderOffset, blobDataSize, buildNumber)
    ELSE Null

\* the earlier revisions of the factory (model_version.cpp), which take the
\* unpacked pair; their variants carry version as a (major, minor) struct
createMetadata_1_0(major, minor, buildNumber) ==
    IF major = 1
    THEN [null |-> FALSE, version |-> [major |-> 1, minor |-> 0],
          ovVersion |-> OpenvinoVersion(buildNumber)]
    ELSE Null

createMetadata_2_x(major, minor, buildNumber) ==
    IF major = 2
    THEN IF minor = 0
         THEN [null |-> FALSE, version |-> [major |-> 2, minor |-> 0],
               ovVersion |-> OpenvinoVersion(buildNumber)]
         ELSE IF minor = 1
         THEN [null |-> FALSE, version |-> [major |-> 2, minor |-> 1],
               ovVersion |-> OpenvinoVersion(buildNumber)]
         ELSE Null
    ELSE Null

\* the values of the environment variable NPU_DISABLE_VERSION_CHECK
EnvValues == {"unset", "true", "false"}

envVarStrToBool(env) == env = "true"

\* a comparison of the first strlen(buildNumber) bytes only
is_compatible_prefix(m, buildNumber, developerBuild, env) ==
    IF StrData(get_version(m.ovVersion), Len(buildNumber)) # buildNumber
       \/ LtW(get_version(m.ovVersion).size, ToBytes(Len(buildNumber), U32))
    THEN developerBuild /\ env # "unset" /\ envVarStrToBool(env)
    ELSE TRUE

\* the bypass without its #ifdef NPU_PLUGIN_DEVELOPER_BUILD guard
is_compatible_unguarded(m, buildNumber, developerBuild, env) ==
    IF get_version(m.ovVersion) # Str(buildNumber)
    THEN env # "unset" /\ envVarStrToBool(env)
    ELSE TRUE

\* a bypass that is on unless the variable says otherwise
is_compatible_default_on(m, buildNumber, developerBuild, env) ==
    IF get_version(m.ovVersion) # Str(buildNumber)
    THEN developerBuild /\ (env = "unset" \/ envVarStrToBool(env))
    ELSE TRUE

\* std::string != const char*: the sizes differ or a byte differs
is_compatible(m, buildNumber, developerBuild, env) ==
    IF get_version(m.ovVersion) # Str(buildNumber)
    THEN developerBuild /\ env # "unset" /\ envVarStrToBool(env)
    ELSE TRUE

(***************************************************************************)
(* Inputs of the model.                                                    *)
(***************************************************************************)
\* ov::get_openvino_version().buildNumber of the running build: "ab", ""
RunningBuilds == {<<97, 98>>, << >>}

\* build strings a blob is written with: "", "a", "ab", "Ab", "ab "
StoredBuilds == {<< >>, <<97>>, <<97, 98>>, <<65, 98>>, <<97, 98, 32>>}

\* version identifiers a blob is written with
WrittenVersions == {METADATA_VERSION_1_0, DummyVersion, make_version(1, 1)}

\* values of the 8-byte size field a blob of payload length L whose metadata
\* ends at offset metaEnd is written with: L (what the writer stores), and
\* crafted ones inside and beyond the blob
SizeFields(L, metaEnd) ==
    {ToBytes(L, U64), ToBytes(0, U64), ToBytes(L + 1, U64),
     ToBytes(metaEnd, U64), ToBytes(metaEnd + 1, U64),
     <<0, 0, 0, 0, 1, 0, 0, 0>>, Filled(U64, 255)}

\* crafted length fields: one more than the build string "ab" has, more than
\* any stream of the model holds, and the largest uint32_t
CraftedBuilds == {<<97, 98>>}
CraftedLengths == {ToBytes(3, U32), ToBytes(64, U32), Filled(U32, 255)}

\* (major, minor) pairs the factories are asked for; 32343 = 0x7E57 and
\* 44093 = 0xAC3D are the unit test's
ProbedMajors == 0..MaxProbed \cup {32343, 65535}
ProbedMinors == 0..MaxProbed \cup {44093, 65535}

\* markers a blob is written with: the magic marker, and "OVNPX"
WrittenMarkers == {MAGIC_BYTES, <<79, 86, 78, 80, 88>>}

\* a foreign blob " ELF", and a bare trailer (size field 0 and marker)
ElfBlob == <<32, 69, 76, 70>>
BareTrailer == ToBytes(0, U64) \o MAGIC_BYTES

\* foreign streams: the prefixes of " ELF" and the suffixes of " ELF" followed
\* by a bare trailer
ForeignBlobs ==
    {SubSeq(ElfBlob, 1, k) : k \in 0..Len(ElfBlob)}
    \cup {SubSeq(ElfBlob \o BareTrailer, k, Len(ElfBlob \o BareTrailer)) :
            k \in 1..(Len(ElfBlob \o BareTrailer) + 1)}

\* what an uninitialised uint64_t / uint32_t local may hold
GarbageU64 == {Filled(U64, 0), Filled(U64, 255)}
GarbageU32 == {METADATA_VERSION_1_0, Filled(U32, 255)}

\* the payload lengths: the short ones, and the 128 bytes of scenario A
PayloadLengths == 0..MaxPayload \cup {128}

\* the bytes of the header ('H'), of the payload and of the junk ('J')
HeaderBytes(n) == Filled(n, 72)
PayloadBytes(n) == Filled(n, 192)
JunkBytes(n) == Filled(n, 74)

(***************************************************************************)
(* State.                                                                  *)
(***************************************************************************)
VARIABLES
    running,         \* buildNumber of the running build
    pc,              \* where the scenario stands
    made,            \* what the writer put in the stream
    stream,          \* the std::istream: [data, pos, fail]
    call,            \* the locals of read_metadata_from and its outcome
    verdict,         \* what is_compatible() returned on the handle
    factory,         \* what the factories returned for a probed (major, minor)
    codec,           \* what an encoder or decoder returned for a probed input
    parked,          \* the calls of read_metadata_from that are not running now
    container        \* the BlobContainerAlignedBuffer the caller built, and what it answered

vars == <<running, pc, made, stream, call, verdict, factory, codec, parked, container>>

NoCall ==
    [overload       |-> "stream",
     entryPos       |-> Filled(U64, 0),
     entryFail      |-> FALSE,
     currentStreamPos |-> Filled(U64, 0),
     streamSize     |-> Filled(U64, 0),
     blobMagicBytes |-> << >>,
     blobDataSize   |-> Filled(U64, 0),
     metaVersion    |-> Filled(U32, 0),
     storedMeta     |-> Null,
     created        |-> FALSE,
     decode         |-> "none",
     reads          |-> << >>,
     result         |-> "none"]

\* no container has been built
NoContainer == [built |-> FALSE]

\* one call only: no call is parked
NoPair == [active |-> "none", interleaved |-> FALSE, ctx |-> << >>]

NothingMade ==
    [foreign |-> FALSE, header |-> 0, payload |-> 0,
     version |-> Filled(U32, 0), build |-> << >>, lenField |-> Filled(U32, 0),
     metaEnd |-> 0,
     sizeField |-> Filled(U64, 0), marker |-> << >>, junk |-> 0]

Init ==
    /\ running \in RunningBuilds
    /\ pc = "w_header"
    /\ made = NothingMade
    /\ stream = [data |-> << >>, pos |-> 0, fail |-> FALSE]
    /\ call = NoCall
    /\ verdict = "none"
    /\ factory = "none"
    /\ codec = "none"
    /\ parked = NoPair
    /\ container = NoContainer

(***************************************************************************)
(* The stream's content: what precedes the blob, the compiled payload, and *)
(* the trailer written as the unit tests write it.                         *)
(***************************************************************************)
Append_(bytes) == stream' = [stream EXCEPT !.data = stream.data \o bytes]

\* the bytes that precede the blob in the stream (the caller has read them)
WriteHeader(n) ==
    /\ pc = "w_header"
    /\ Append_(HeaderBytes(n))
    /\ made' = [made EXCEPT !.header = n]
    /\ pc' = "w_payload"
    /\ UNCHANGED <<running, call, verdict, factory, codec, parked, container>>

\* the compiler's payload
Compile(n) ==
    /\ pc = "w_payload"
    /\ Append_(PayloadBytes(n))
    /\ made' = [made EXCEPT !.payload = n]
    /\ pc' = "w_meta"
    /\ UNCHANGED <<running, call, verdict, factory, codec, parked, container>>

\* a stream that no writer of this format produced
Foreign(bytes) ==
    /\ pc = "w_payload"
    /\ Append_(bytes)
    /\ made' = [made EXCEPT !.foreign = TRUE]
    /\ pc' = "open"
    /\ UNCHANGED <<running, call, verdict, factory, codec, parked, container>>

\* Metadata<CURRENT_METADATA_VERSION>(offset, blobSize), set_version,
\* set_ov_version, meta.write(stream)
MetaWrite(version, build) ==
    /\ pc = "w_meta"
    /\ LET meta == set_ov_version(
                     set_version(
                       Metadata(NoOpt, ToBytes(made.header, U64),
                                ToBytes(made.payload, U64), running),
                       version),
                     OpenvinoVersion(build))
       IN  /\ Append_(MetadataWrite(meta))
           /\ made' = [made EXCEPT !.version = version, !.build = build,
                         !.lenField = meta.ovVersion.size,
                         !.metaEnd = made.payload + Len(MetadataWrite(meta))]
    /\ pc' = "w_size"
    /\ UNCHANGED <<running, call, verdict, factory, codec, parked, container>>

\* a crafted variant: the current version, a length field that is not the
\* length of the build string that follows it
CraftMeta(build, lenField) ==
    /\ pc = "w_meta"
    /\ lenField # ToBytes(Len(build), U32)
    /\ Append_(METADATA_VERSION_1_0 \o lenField \o build)
    /\ made' = [made EXCEPT !.version = METADATA_VERSION_1_0, !.build = build,
                  !.lenField = lenField,
                  !.metaEnd = made.payload + U32 + U32 + Len(build)]
    /\ pc' = "w_size"
    /\ UNCHANGED <<running, call, verdict, factory, codec, parked, container>>

\* stream.write(&blobSize, sizeof(blobSize))
WriteSize(blobSize) ==
    /\ pc = "w_size"
    /\ Append_(blobSize)
    /\ made' = [made EXCEPT !.sizeField = blobSize]
    /\ pc' = "w_magic"
    /\ UNCHANGED <<running, call, verdict, factory, codec, parked, container>>

\* stream.write(MAGIC_BYTES.data(), MAGIC_BYTES.size())
WriteMagic(marker) ==
    /\ pc = "w_magic"
    /\ Append_(marker)
    /\ made' = [made EXCEPT !.marker = marker]
    /\ pc' = "w_junk"
    /\ UNCHANGED <<running, call, verdict, factory, codec, parked, container>>

\* bytes that follow the blob in the stream
WriteJunk(n) ==
    /\ pc = "w_junk"
    /\ Append_(JunkBytes(n))
    /\ made' = [made EXCEPT !.junk = n]
    /\ pc' = "open"
    /\ UNCHANGED <<running, call, verdict, factory, codec, parked, container>>

\* the caller hands the stream over, positioned at the start of the blob,
\* in a good or in a failed state
Open(failed) ==
    /\ pc = "open"
    /\ stream' = [stream EXCEPT !.pos = made.header, !.fail = failed]
    /\ pc' = "call"
    /\ UNCHANGED <<running, made, call, verdict, factory, codec, parked, container>>

(***************************************************************************)
(* read_metadata_from(std::istream&), one action per statement group.      *)
(* Line 136 reads from metadataStream, a name the function does not        *)
(* declare; the model reads from stream, which stands right after the      *)
(* version identifier at that point.                                       *)
(***************************************************************************)
MagicSize == ToBytes(Len(MAGIC_BYTES), U64)

Logged(entry) == call.reads \o <<entry>>

\* lines 111-116: blobMagicBytes.resize(magicBytesSize), stream.tellg()
Enter ==
    /\ pc = "call"
    /\ call' = [NoCall EXCEPT !.entryPos = TellG(stream),
                              !.entryFail = stream.fail,
                              !.blobMagicBytes = Filled(Len(MAGIC_BYTES), 0),
                              !.currentStreamPos = TellG(stream)]
    /\ pc' = "getFileSize"
    /\ UNCHANGED <<running, made, stream, verdict, factory, codec, parked, container>>

\* getFileSize without its check of the stream's state
getFileSizeUnchecked(st) ==
    LET streamStart == TellG(st)
        atEnd       == SeekEnd(st)
        streamEnd   == TellG(atEnd)
        back        == SeekBeg(atEnd, streamStart)
    IN  [st    |-> back,
         threw |-> LtW(streamEnd, streamStart),
         size  |-> SubW(streamEnd, streamStart)]

\* getFileSize(stream): the stream after it, and the size or the exception
getFileSize(st) ==
    IF st.fail
    THEN [st |-> st, threw |-> TRUE, size |-> Filled(U64, 0)]
    ELSE LET streamStart == TellG(st)
             atEnd       == SeekEnd(st)
             streamEnd   == TellG(atEnd)
             back        == SeekBeg(atEnd, streamStart)
         IN  [st    |-> back,
              threw |-> LtW(streamEnd, streamStart),
              size  |-> SubW(streamEnd, streamStart)]

\* line 117
GetFileSize ==
    /\ pc = "getFileSize"
    /\ LET r == getFileSize(stream)
       IN  /\ stream' = r.st
           /\ IF r.threw
              THEN /\ call' = [call EXCEPT !.result = "throw"]
                   /\ pc' = "returned"
              ELSE /\ call' = [call EXCEPT !.streamSize = r.size]
                   /\ pc' = "magic"
    /\ UNCHANGED <<running, made, verdict, factory, codec, parked, container>>

\* where line 118 seeks to before it reads the marker
MagicOffset(streamSize, currentStreamPos) == SubW(streamSize, MagicSize)

\* lines 118-123
ReadMagic ==
    /\ pc = "magic"
    /\ LET at == SeekBeg(stream, MagicOffset(call.streamSize, call.currentStreamPos))
           r  == StreamRead(at, MagicSize)
           blobMagicBytes == Stored(call.blobMagicBytes, r.got)
       IN  /\ stream' = r.st
           /\ IF MAGIC_BYTES # blobMagicBytes
              THEN /\ call' = [call EXCEPT !.blobMagicBytes = blobMagicBytes,
                                           !.reads = Logged(ReadAt(at, MagicSize)),
                                           !.result = "null"]
                   /\ pc' = "returned"
              ELSE /\ call' = [call EXCEPT !.blobMagicBytes = blobMagicBytes,
                                           !.reads = Logged(ReadAt(at, MagicSize))]
                   /\ pc' = "blobDataSize"
    /\ UNCHANGED <<running, made, verdict, factory, codec, parked, container>>

\* where line 126 seeks to before it reads the size field
SizeFieldOffset(streamSize, currentStreamPos) ==
    SubW(SubW(streamSize, MagicSize), ToBytes(U64, U64))

\* where line 128 seeks to before the version identifier is read
MetadataOffset(currentStreamPos, blobDataSize) ==
    AddW(currentStreamPos, blobDataSize)

\* lines 125-128: blobDataSize is not initialised; a short read leaves the
\* bytes it did not store as they were
ReadBlobDataSize ==
    /\ pc = "blobDataSize"
    /\ LET at == SeekBeg(stream, SizeFieldOffset(call.streamSize, call.currentStreamPos))
           r  == StreamRead(at, ToBytes(U64, U64))
       IN  \E garbage \in (IF Len(r.got) = U64 THEN {Filled(U64, 0)} ELSE GarbageU64) :
             LET blobDataSize == Stored(garbage, r.got)
             IN  /\ stream' = SeekBeg(r.st, MetadataOffset(call.currentStreamPos, blobDataSize))
                 /\ call' = [call EXCEPT !.blobDataSize = blobDataSize,
                                         !.reads = Logged(ReadAt(at, ToBytes(U64, U64)))]
    /\ pc' = "metaVersion"
    /\ UNCHANGED <<running, made, verdict, factory, codec, parked, container>>

\* lines 130-131: metaVersion is not initialised either
ReadMetaVersion ==
    /\ pc = "metaVersion"
    /\ LET r == StreamRead(stream, ToBytes(U32, U64))
       IN  \E garbage \in (IF Len(r.got) = U32 THEN {Filled(U32, 0)} ELSE GarbageU32) :
             /\ stream' = r.st
             /\ call' = [call EXCEPT !.metaVersion = Stored(garbage, r.got),
                                     !.reads = Logged(ReadAt(stream, ToBytes(U32, U64)))]
    /\ pc' = "create"
    /\ UNCHANGED <<running, made, verdict, factory, codec, parked, container>>

\* line 135
CreateMetadata ==
    /\ pc = "create"
    /\ call' = [call EXCEPT
                  !.storedMeta = create_metadata(call.metaVersion, call.currentStreamPos,
                                                 call.blobDataSize, running),
                  !.created = TRUE]
    /\ pc' = "read"
    /\ UNCHANGED <<running, made, stream, verdict, factory, codec, parked, container>>

\* line 136, storedMeta->read(...), when storedMeta holds a variant
ReadFields ==
    /\ pc = "read"
    /\ call.storedMeta # Null
    /\ LET r == OpenvinoVersionRead(call.storedMeta.ovVersion, stream)
       IN  /\ stream' = r.st
           /\ call' = [call EXCEPT !.storedMeta.ovVersion = r.ov,
                                   !.decode = "read",
                                   !.reads = call.reads \o r.reads]
    /\ pc' = "restore"
    /\ UNCHANGED <<running, made, verdict, factory, codec, parked, container>>

\* line 136 when _version.resize throws std::bad_alloc: catch (...) at line
\* 137 logs a warning and the function goes on with storedMeta as it is
ReadFieldsBadAlloc ==
    /\ pc = "read"
    /\ call.storedMeta # Null
    /\ ResizeCanThrow(call.storedMeta.ovVersion, stream)
    /\ LET r == OpenvinoVersionReadThrows(call.storedMeta.ovVersion, stream)
       IN  /\ stream' = r.st
           /\ call' = [call EXCEPT !.storedMeta.ovVersion = r.ov,
                                   !.decode = "caught",
                                   !.reads = call.reads \o r.reads]
    /\ pc' = "restore"
    /\ UNCHANGED <<running, made, verdict, factory, codec, parked, container>>

\* line 136 when create_metadata returned nullptr: the call through the null
\* unique_ptr is undefined behaviour.  The process dies (access violation) ...
ReadFieldsNullCrash ==
    /\ pc = "read"
    /\ call.storedMeta = Null
    /\ call' = [call EXCEPT !.decode = "nullptr", !.result = "crash"]
    /\ pc' = "returned"
    /\ UNCHANGED <<running, made, stream, verdict, factory, codec, parked, container>>

\* ... or the fault is delivered as an exception that catch (...) swallows
\* (a build with asynchronous exception handling)
ReadFieldsNullCaught ==
    /\ pc = "read"
    /\ call.storedMeta = Null
    /\ call' = [call EXCEPT !.decode = "nullptr"]
    /\ pc' = "restore"
    /\ UNCHANGED <<running, made, stream, verdict, factory, codec, parked, container>>

\* lines 144-145
Restore ==
    /\ pc = "restore"
    /\ stream' = SeekBeg(stream, call.currentStreamPos)
    /\ call' = [call EXCEPT !.result = IF call.storedMeta = Null THEN "null" ELSE "handle"]
    /\ pc' = "returned"
    /\ UNCHANGED <<running, made, verdict, factory, codec, parked, container>>

(***************************************************************************)
(* read_metadata_from(std::istream&, const std::shared_ptr<AlignedBuffer>&)*)
(* with a buffer that holds the bytes of the stream.  get_ptr(offset) adds *)
(* the offset to the buffer's address without a check: a read outside the  *)
(* buffer is undefined behaviour, which either faults or yields whatever   *)
(* bytes lie there.  Line 175 declares storedMeta inside the try block and *)
(* line 185 returns it; the model returns the variant made at line 175.    *)
(***************************************************************************)
\* what reading n bytes at get_ptr(off) can yield: the bytes of the buffer,
\* or, outside it, a fault or one of the garbage values
BufferGet(buf, off, n, garbage) ==
    IF IsSmall(off) /\ ToNat(off) + n <= Len(buf)
    THEN {[fault |-> FALSE, got |-> SubSeq(buf, ToNat(off) + 1, ToNat(off) + n)]}
    ELSE {[fault |-> FALSE, got |-> g] : g \in garbage}
         \cup {[fault |-> TRUE, got |-> << >>]}

\* one entry of the log of read attempts: at is -2 for an address that is not
\* an offset of the model
BufferAt(off, n) == [at |-> IF IsSmall(off) THEN ToNat(off) ELSE -2, n |-> ToBytes(n, U64)]

\* what the bytes outside the buffer may hold where a marker is looked for
GarbageMagic == {MAGIC_BYTES, Filled(Len(MAGIC_BYTES), 0)}

\* lines 150-158, modelBuffer not null
EnterBuffer ==
    /\ pc = "call"
    /\ call' = [NoCall EXCEPT !.overload = "buffer",
                              !.entryPos = TellG(stream),
                              !.entryFail = stream.fail,
                              !.blobMagicBytes = Filled(Len(MAGIC_BYTES), 0),
                              !.currentStreamPos = TellG(stream),
                              !.streamSize = ToBytes(Len(stream.data), U64)]
    /\ pc' = "b_magic"
    /\ UNCHANGED <<running, made, stream, verdict, factory, codec, parked, container>>

\* lines 150-152, modelBuffer == nullptr: the stream overload is called
EnterNullBuffer ==
    /\ pc = "call"
    /\ call' = [NoCall EXCEPT !.overload = "null_buffer",
                              !.entryPos = TellG(stream),
                              !.entryFail = stream.fail,
                              !.blobMagicBytes = Filled(Len(MAGIC_BYTES), 0),
                              !.currentStreamPos = TellG(stream)]
    /\ pc' = "getFileSize"
    /\ UNCHANGED <<running, made, stream, verdict, factory, codec, parked, container>>

\* lines 160-164
BufferMagic ==
    /\ pc = "b_magic"
    /\ LET off == MagicOffset(call.streamSize, call.currentStreamPos)
       IN  \E r \in BufferGet(stream.data, off, Len(MAGIC_BYTES), GarbageMagic) :
             LET logged == Logged(BufferAt(off, Len(MAGIC_BYTES)))
             IN  IF r.fault
                 THEN /\ call' = [call EXCEPT !.reads = logged, !.result = "crash"]
                      /\ pc' = "returned"
                 ELSE IF MAGIC_BYTES # r.got
                 THEN /\ call' = [call EXCEPT !.blobMagicBytes = r.got,
                                              !.reads = logged,
                                              !.result = "null"]
                      /\ pc' = "returned"
                 ELSE /\ call' = [call EXCEPT !.blobMagicBytes = r.got, !.reads = logged]
                      /\ pc' = "b_blobDataSize"
    /\ UNCHANGED <<running, made, stream, verdict, factory, codec, parked, container>>

\* lines 166-167
BufferBlobDataSize ==
    /\ pc = "b_blobDataSize"
    /\ LET off == SizeFieldOffset(call.streamSize, call.currentStreamPos)
       IN  \E r \in BufferGet(stream.data, off, U64, GarbageU64) :
             LET logged == Logged(BufferAt(off, U64))
             IN  IF r.fault
                 THEN /\ call' = [call EXCEPT !.reads = logged, !.result = "crash"]
                      /\ pc' = "returned"
                 ELSE /\ call' = [call EXCEPT !.blobDataSize = r.got, !.reads = logged]
                      /\ pc' = "b_metaVersion"
    /\ UNCHANGED <<running, made, stream, verdict, factory, codec, parked, container>>

\* lines 169-172
BufferMetaVersion ==
    /\ pc = "b_metaVersion"
    /\ LET off == MetadataOffset(call.currentStreamPos, call.blobDataSize)
       IN  \E r \in BufferGet(stream.data, off, U32, GarbageU32) :
             LET logged == Logged(BufferAt(off, U32))
             IN  IF r.fault
                 THEN /\ call' = [call EXCEPT !.reads = logged, !.result = "crash"]
                      /\ stream' = stream
                      /\ pc' = "returned"
                 ELSE /\ call' = [call EXCEPT !.metaVersion = r.got, !.reads = logged]
                      /\ stream' = SeekCur(stream, AddW(call.blobDataSize, ToBytes(U32, U64)))
                      /\ pc' = "b_create"
    /\ UNCHANGED <<running, made, verdict, factory, codec, parked, container>>

\* line 174
BufferCreateMetadata ==
    /\ pc = "b_create"
    /\ call' = [call EXCEPT
                  !.storedMeta = create_metadata(call.metaVersion, call.currentStreamPos,
                                                 call.blobDataSize, running),
                  !.created = TRUE]
    /\ pc' = "b_read"
    /\ UNCHANGED <<running, made, stream, verdict, factory, codec, parked, container>>

\* lines 175 and 185: storedMeta->read(stream) returns, the variant is returned
BufferReadFields ==
    /\ pc = "b_read"
    /\ call.storedMeta # Null
    /\ LET r == OpenvinoVersionRead(call.storedMeta.ovVersion, stream)
       IN  /\ stream' = r.st
           /\ call' = [call EXCEPT !.storedMeta.ovVersion = r.ov,
                                   !.decode = "read",
                                   !.reads = call.reads \o r.reads,
                                   !.result = "handle"]
    /\ pc' = "returned"
    /\ UNCHANGED <<running, made, verdict, factory, codec, parked, container>>

\* lines 175-183: resize throws, catch (...) logs and throws
\* "NPU metadata mismatch."
BufferReadFieldsBadAlloc ==
    /\ pc = "b_read"
    /\ call.storedMeta # Null
    /\ ResizeCanThrow(call.storedMeta.ovVersion, stream)
    /\ LET r == OpenvinoVersionReadThrows(call.storedMeta.ovVersion, stream)
       IN  /\ stream' = r.st
           /\ call' = [call EXCEPT !.storedMeta.ovVersion = r.ov,
                                   !.decode = "caught",
                                   !.reads = call.reads \o r.reads,
                                   !.result = "throw"]
    /\ pc' = "returned"
    /\ UNCHANGED <<running, made, verdict, factory, codec, parked, container>>

\* line 175 when create_metadata returned nullptr: undefined behaviour, the
\* process dies ...
BufferReadFieldsNullCrash ==
    /\ pc = "b_read"
    /\ call.storedMeta = Null
    /\ call' = [call EXCEPT !.decode = "nullptr", !.result = "crash"]
    /\ pc' = "returned"
    /\ UNCHANGED <<running, made, stream, verdict, factory, codec, parked, container>>

\* ... or the fault reaches catch (...), which throws "NPU metadata mismatch."
BufferReadFieldsNullCaught ==
    /\ pc = "b_read"
    /\ call.storedMeta = Null
    /\ call' = [call EXCEPT !.decode = "nullptr", !.result = "throw"]
    /\ pc' = "returned"
    /\ UNCHANGED <<running, made, stream, verdict, factory, codec, parked, container>>

(***************************************************************************)
(* BlobContainerAlignedBuffer (blob_container.hpp): the aligned buffer, the *)
(* header offset and the metadata size it was constructed with.            *)
(***************************************************************************)
BlobContainerAlignedBuffer(blobSO, ovHeaderOffset, metadataSize) ==
    [_ownershipBlob  |-> blobSO,
     _ovHeaderOffset |-> ovHeaderOffset,
     _metadataSize   |-> metadataSize]

\* get_ptr(): _ownershipBlob->get_ptr(_ovHeaderOffset), as an offset from the
\* buffer's address
container_get_ptr(c) == c._ovHeaderOffset

\* size(): a subtraction of size_t values
container_size(c) ==
    SubW(SubW(ToBytes(Len(c._ownershipBlob), U64), c._ovHeaderOffset), c._metadataSize)

\* release_from_memory(): what it returns, and the container after it
release_from_memory(c) == [ret |-> FALSE, c |-> c]

\* the caller builds the container from the buffer and the variant that
\* read_metadata_from(stream, buffer) returned; as metadata size it passes
\* none, or the bytes of the buffer that follow the header and the payload
BuildContainer ==
    /\ pc = "returned"
    /\ call.overload = "buffer"
    /\ call.result = "handle"
    /\ \E metadataSize \in
           {Filled(U64, 0),
            SubW(SubW(ToBytes(Len(stream.data), U64),
                      get_ov_header_offset(call.storedMeta)),
                 get_blob_size(call.storedMeta))} :
         LET c == BlobContainerAlignedBuffer(stream.data,
                                             get_ov_header_offset(call.storedMeta),
                                             metadataSize)
         IN  container' = [built |-> TRUE, blob |-> c,
                           size |-> container_size(c), ptr |-> container_get_ptr(c),
                           asked |-> FALSE, released |-> FALSE,
                           size_after |-> container_size(c),
                           ptr_after |-> container_get_ptr(c)]
    /\ pc' = "contained"
    /\ UNCHANGED <<running, made, stream, call, verdict, factory, codec, parked>>

\* the caller asks the container to release the blob
ReleaseFromMemory ==
    /\ pc = "contained"
    /\ LET r == release_from_memory(container.blob)
       IN  container' = [container EXCEPT !.blob = r.c,
                                          !.asked = TRUE,
                                          !.released = r.ret,
                                          !.size_after = container_size(r.c),
                                          !.ptr_after = container_get_ptr(r.c)]
    /\ pc' = "released"
    /\ UNCHANGED <<running, made, stream, call, verdict, factory, codec, parked>>

\* a variation of the first call that moves the build string out of the variant
IsCompatible_consuming(developerBuild, env) ==
    /\ pc = "returned"
    /\ call.result = "handle"
    /\ verdict' = [value |-> is_compatible(call.storedMeta, running, developerBuild, env),
                   developerBuild |-> developerBuild,
                   env |-> env,
                   calls |-> 1,
                   previous |-> is_compatible(call.storedMeta, running, developerBuild, env),
                   before |-> call.storedMeta]
    /\ call' = [call EXCEPT !.storedMeta = set_ov_version(call.storedMeta, OpenvinoVersion(<< >>))]
    /\ pc' = "checked"
    /\ UNCHANGED <<running, made, stream, factory, codec, parked, container>>

\* the caller asks the returned handle; developerBuild says whether the
\* plugin was compiled with NPU_PLUGIN_DEVELOPER_BUILD, env is the value of
\* NPU_DISABLE_VERSION_CHECK at the time of the call
\* the first call of is_compatible() on the handle returned; before is the
\* variant as it was handed out, previous the value of the call before this one
IsCompatible(developerBuild, env) ==
    /\ pc = "returned"
    /\ call.result = "handle"
    /\ verdict' = [value |-> is_compatible(call.storedMeta, running, developerBuild, env),
                   developerBuild |-> developerBuild,
                   env |-> env,
                   calls |-> 1,
                   previous |-> is_compatible(call.storedMeta, running, developerBuild, env),
                   before |-> call.storedMeta]
    /\ pc' = "checked"
    /\ UNCHANGED <<running, made, stream, call, factory, codec, parked, container>>

\* a further call of is_compatible() on the same handle, under the same
\* build flavour and environment
IsCompatibleAgain ==
    /\ pc = "checked"
    /\ verdict.calls < MaxCalls
    /\ verdict' = [verdict EXCEPT
                     !.value = is_compatible(call.storedMeta, running,
                                             verdict.developerBuild, verdict.env),
                     !.previous = verdict.value,
                     !.calls = @ + 1]
    /\ UNCHANGED <<running, pc, made, stream, call, factory, codec, parked, container>>

\* the three revisions of the factory asked for one (major, minor) pair
ProbeFactory(major, minor) ==
    /\ pc = "w_header"
    /\ factory' = [major  |-> major,
                   minor  |-> minor,
                   packed |-> create_metadata(make_version(major, minor),
                                              Filled(U64, 0), Filled(U64, 0), running),
                   rev_1_0 |-> createMetadata_1_0(major, minor, running),
                   rev_2_x |-> createMetadata_2_x(major, minor, running)]
    /\ pc' = "probed"
    /\ UNCHANGED <<running, made, stream, call, verdict, codec, parked, container>>

Next ==
    \/ \E major \in ProbedMajors, minor \in ProbedMinors : ProbeFactory(major, minor)
    \/ \E n \in 0..MaxHeader : WriteHeader(n)
    \/ \E n \in PayloadLengths : Compile(n)
    \/ \E bytes \in ForeignBlobs : Foreign(bytes)
    \/ \E version \in WrittenVersions, build \in StoredBuilds : MetaWrite(version, build)
    \/ \E build \in CraftedBuilds, lenField \in CraftedLengths : CraftMeta(build, lenField)
    \/ \E blobSize \in SizeFields(made.payload, made.metaEnd) : WriteSize(blobSize)
    \/ \E marker \in WrittenMarkers : WriteMagic(marker)
    \/ \E n \in 0..MaxJunk : WriteJunk(n)
    \/ \E failed \in BOOLEAN : Open(failed)
    \/ Enter
    \/ GetFileSize
    \/ ReadMagic
    \/ ReadBlobDataSize
    \/ ReadMetaVersion
    \/ CreateMetadata
    \/ ReadFields
    \/ ReadFieldsBadAlloc
    \/ ReadFieldsNullCrash
    \/ ReadFieldsNullCaught
    \/ Restore
    \/ EnterBuffer
    \/ EnterNullBuffer
    \/ BufferMagic
    \/ BufferBlobDataSize
    \/ BufferMetaVersion
    \/ BufferCreateMetadata
    \/ BufferReadFields
    \/ BufferReadFieldsBadAlloc
    \/ BufferReadFieldsNullCrash
    \/ BufferReadFieldsNullCaught
    \/ \E developerBuild \in BOOLEAN, env \in EnvValues : IsCompatible(developerBuild, env)
    \/ IsCompatibleAgain
    \/ BuildContainer
    \/ ReleaseFromMemory

Spec == Init /\ [][Next]_vars

(***************************************************************************)
(* The encoders and decoders on their own: each action applies one of them *)
(* to one input and records what it returned.                              *)
(***************************************************************************)
\* the revisions of OpenvinoVersion::read: part_000 (resize, then read) and
\* the earlier ones (read into the string as it is)
ReadRevisions == {"resized", "unsized"}

\* sources a string is decoded from: a length field followed by a prefix of
\* "ab "; the length field may be cut short itself
SourceTails == {SubSeq(<<97, 98, 32>>, 1, k) : k \in 0..3}
SourceLengths ==
    {ToBytes(k, U32) : k \in 0..3} \cup {ToBytes(64, U32), Filled(U32, 255)}
DecodeSources ==
    {lenField \o tail : lenField \in SourceLengths, tail \in SourceTails}
    \cup {<< >>, <<2, 0>>}

\* the bytes the writers emit for the build string: the length field and the
\* version.size() bytes of the string (Metadata<1,0>::data and
\* Metadata<2,0>::write of model_version.cpp) ...
StringField_sized(ov) == ov.size \o StrData(ov.version, ToNat(ov.version.size))

\* ... or the bytes of the string alone (Metadata<1,0>::data of part_001)
StringField_bare(ov) == StrData(ov.version, ToNat(ov.version.size))

\* the revisions of the pair (writer of the build string, OpenvinoVersion::read)
CodecRevisions == {"part_000", "rev_1_0", "rev_2_x", "part_001"}

StringField(revision, ov) ==
    IF revision = "part_000" THEN OpenvinoVersionWrite(ov)
    ELSE IF revision = "part_001" THEN StringField_bare(ov)
    ELSE StringField_sized(ov)

\* 16-bit values the version identifier is packed from: the small ones, the
\* byte boundaries, the unit test's 0x7E57 and 0xAC3D, and the largest
Halves == {0, 1, 255, 256, 32343, 44093, 65535}

\* Metadata<2, 0> and Metadata<2, 1> (model_version.cpp): the fields
\* dummy_extra and another_dummy are kept as the bytes of their object
\* representation; a Metadata<2, 0> has no another_dummy
Metadata_2_x(minor, buildNumber, dummy_extra, another_dummy) ==
    [version       |-> [major |-> 2, minor |-> minor],
     ovVersion     |-> OpenvinoVersion(buildNumber),
     dummy_extra   |-> dummy_extra,
     another_dummy |-> IF minor = 1 THEN another_dummy ELSE << >>]

\* Metadata<2, 0>::write
MetadataWrite_2_0(m) ==
    ToBytes(m.version.major, U32) \o ToBytes(m.version.minor, U32)
    \o m.dummy_extra
    \o StringField_sized(m.ovVersion)

\* Metadata<2, 1>::write
MetadataWrite_2_1(m) == MetadataWrite_2_0(m) \o m.another_dummy

\* Metadata<2, 0>::read: the variant and the stream after it
MetadataRead_2_0(m, st) ==
    LET r1 == StreamRead(st, ToBytes(Len(m.dummy_extra), U64))
        r2 == OpenvinoVersionRead_unsized(m.ovVersion, r1.st)
    IN  [m       |-> [m EXCEPT !.dummy_extra = Stored(m.dummy_extra, r1.got),
                               !.ovVersion = r2.ov],
         st      |-> r2.st,
         overrun |-> r2.overrun]

\* Metadata<2, 1>::read
MetadataRead_2_1(m, st) ==
    LET r1 == MetadataRead_2_0(m, st)
        r2 == StreamRead(r1.st, ToBytes(Len(m.another_dummy), U64))
    IN  [m       |-> [r1.m EXCEPT !.another_dummy = Stored(m.another_dummy, r2.got)],
         st      |-> r2.st,
         overrun |-> r1.overrun]

\* the format version the running build supports (model_version.hpp)
CURRENT_METAVERSION_MAJOR == 1
CURRENT_METAVERSION_MINOR == 0

\* Metadata<2, 0>::isCompatible
isCompatible_2_0(m) == FALSE

\* Metadata<2, 1>::isCompatible
isCompatible_2_1(m, buildNumber) ==
    IF m.version.major # CURRENT_METAVERSION_MAJOR
       \/ m.version.minor # CURRENT_METAVERSION_MINOR
    THEN FALSE
    ELSE m.ovVersion.version = Str(buildNumber)

(***************************************************************************)
(* check_blob_version of the earlier revisions, on a std::vector<uint8_t>. *)
(* An iterator outside the vector is dereferenced without a check: the     *)
(* read faults, or yields whatever bytes lie there.                        *)
(***************************************************************************)
DELIMITER == <<79, 86, 78, 80, 85>>
VERSION_HEADER == <<79, 86, 78, 80, 85>>

\* blob.size() - sizeof(blobDataSize), a size_t
TailOffset(blob) == SubW(ToBytes(Len(blob), U64), ToBytes(U64, U64))

\* one outcome of the function: the exception thrown, whether a read faulted,
\* the reads made in the vector, the bytes meta.read stored past its string
CheckOutcome(threw, fault, reads, overrun) ==
    [threw |-> threw, fault |-> fault, reads |-> reads, overrun |-> overrun]

\* lines 63-71 (part_001), 66-74 (model_version.cpp): major, minor, meta.read
CheckTail(content, at, reads, buildNumber) ==
    LET st == [data |-> content, pos |-> at, fail |-> FALSE]
        r1 == StreamRead(st, ToBytes(U32, U64))
        r2 == StreamRead(r1.st, ToBytes(U32, U64))
        r3 == OpenvinoVersionRead_unsized(OpenvinoVersion(buildNumber), r2.st)
    IN  CheckOutcome("none", FALSE, reads, r3.overrun)

\* metadataStream.write(&(*metadataIterator), blob.end() - metadataIterator -
\* sizeof(blobDataSize)) with metadataIterator = blob.begin() + off: what the
\* stream can hold after it; a count that is negative as a std::streamsize
\* (top bit set) writes nothing
CheckWritten(blob, off) ==
    LET count == SubW(SubW(ToBytes(Len(blob), U64), off), ToBytes(U64, U64))
    IN  IF count[U64] >= 128 \/ count = Filled(U64, 0)
        THEN {[fault |-> FALSE, got |-> << >>, reads |-> << >>]}
        ELSE IF IsSmall(count)
        THEN {[fault |-> r.fault, got |-> r.got,
               reads |-> <<BufferAt(off, ToNat(count))>>] :
                r \in BufferGet(blob, off, ToNat(count), {Filled(ToNat(count), 0)})}
        ELSE {[fault |-> TRUE, got |-> << >>, reads |-> <<BufferAt(off, 0)>>]}

\* part_001, lines 49-72, blobDataSize read
check_blob_version_part_001(blob, blobDataSize, reads, buildNumber) ==
    IF ~LtW(blobDataSize, TailOffset(blob))
    THEN {CheckOutcome("Imported blob is not versioned", FALSE, reads, 0)}
    ELSE {IF w.fault
          THEN CheckOutcome("none", TRUE, reads \o w.reads, 0)
          ELSE LET r == StreamRead([data |-> w.got, pos |-> 0, fail |-> FALSE],
                                   ToBytes(Len(DELIMITER), U64))
                   blobVersionHeader == Stored(Filled(Len(DELIMITER), 0), r.got)
               IN  IF DELIMITER # blobVersionHeader
                   THEN CheckOutcome("Version header mismatch or missing", FALSE,
                                     reads \o w.reads, 0)
                   ELSE CheckTail(w.got, Len(DELIMITER), reads \o w.reads, buildNumber) :
            w \in CheckWritten(blob, blobDataSize)}

\* model_version.cpp, lines 51-75, blobDataSize read
check_blob_version_model_version(blob, blobDataSize, reads, buildNumber) ==
    IF blobDataSize = TailOffset(blob)
    THEN {CheckOutcome("Imported blob is not versioned", FALSE, reads, 0)}
    ELSE UNION {
           LET logged == reads \o <<BufferAt(blobDataSize, Len(VERSION_HEADER))>>
           IN  IF h.fault
               THEN {CheckOutcome("none", TRUE, logged, 0)}
               ELSE IF VERSION_HEADER # h.got
               THEN {CheckOutcome("Version header mismatch or missing", FALSE, logged, 0)}
               ELSE {IF w.fault
                     THEN CheckOutcome("none", TRUE, logged \o w.reads, 0)
                     ELSE CheckTail(w.got, 0, logged \o w.reads, buildNumber) :
                       w \in CheckWritten(blob, AddW(blobDataSize,
                                                     ToBytes(Len(VERSION_HEADER), U64)))} :
           h \in BufferGet(blob, blobDataSize, Len(VERSION_HEADER), GarbageMagic)}

\* check_blob_version: lines 46-48 (part_001), 48-50 (model_version.cpp) read
\* the last sizeof(size_t) bytes, then the revision's checks
check_blob_version(revision, blob, buildNumber) ==
    UNION {
      LET reads == <<BufferAt(TailOffset(blob), U64)>>
      IN  IF s.fault
          THEN {CheckOutcome("none", TRUE, reads, 0)}
          ELSE IF revision = "part_001"
          THEN check_blob_version_part_001(blob, s.got, reads, buildNumber)
          ELSE check_blob_version_model_version(blob, s.got, reads, buildNumber) :
      s \in BufferGet(blob, TailOffset(blob), U64, GarbageU64)}

\* the bytes Metadata<1, 0>::data() makes after a payload, and the size field
VersionedBlob(payload, header, build, sizeField) ==
    PayloadBytes(payload) \o header \o ToBytes(1, U32) \o ToBytes(0, U32) \o build
    \o sizeField

\* blobs given to check_blob_version: shorter than a size field, a bare size
\* field, and versioned ones whose size field is the payload size, the
\* offset of the size field, one more, beyond the blob, and the largest
CheckedBlobs ==
    {<< >>, <<1, 2, 3>>, ToBytes(0, U64)}
    \cup UNION {
           LET total == Len(VersionedBlob(payload, header, build, ToBytes(0, U64)))
           IN  {VersionedBlob(payload, header, build, sizeField) :
                  sizeField \in {ToBytes(payload, U64), ToBytes(total - U64, U64),
                                 ToBytes(total - U64 + 1, U64), ToBytes(total - 2, U64),
                                 ToBytes(total + 10, U64), Filled(U64, 255)}} :
           payload \in {0, 1}, header \in WrittenMarkers, build \in {<< >>, <<97, 98>>}}

InitCodec ==
    /\ running \in RunningBuilds
    /\ pc = "codec"
    /\ made = NothingMade
    /\ stream = [data |-> << >>, pos |-> 0, fail |-> FALSE]
    /\ call = NoCall
    /\ verdict = "none"
    /\ factory = "none"
    /\ codec = "none"
    /\ parked = NoPair
    /\ container = NoContainer

\* OpenvinoVersion(buildNumber).read(source), resize not throwing
DecodeString(revision, source) ==
    /\ pc = "codec"
    /\ LET st == [data |-> source, pos |-> 0, fail |-> FALSE]
           ov == OpenvinoVersion(running)
       IN  codec' =
             IF revision = "resized"
             THEN LET r == OpenvinoVersionRead(ov, st)
                  IN  [op |-> "read", revision |-> revision, source |-> source,
                       threw |-> FALSE, ov |-> r.ov, st |-> r.st, overrun |-> 0]
             ELSE LET r == OpenvinoVersionRead_unsized(ov, st)
                  IN  [op |-> "read", revision |-> revision, source |-> source,
                       threw |-> FALSE, ov |-> r.ov, st |-> r.st, overrun |-> r.overrun]
    /\ pc' = "decoded"
    /\ UNCHANGED <<running, made, stream, call, verdict, factory, parked, container>>

\* OpenvinoVersion(buildNumber).read(source) of part_000 when resize throws
DecodeStringThrows(source) ==
    /\ pc = "codec"
    /\ LET st == [data |-> source, pos |-> 0, fail |-> FALSE]
           ov == OpenvinoVersion(running)
       IN  /\ ResizeCanThrow(ov, st)
           /\ LET r == OpenvinoVersionReadThrows(ov, st)
              IN  codec' = [op |-> "read", revision |-> "resized", source |-> source,
                            threw |-> TRUE, ov |-> r.ov, st |-> r.st, overrun |-> 0]
    /\ pc' = "decoded"
    /\ UNCHANGED <<running, made, stream, call, verdict, factory, parked, container>>

\* a variant holding the build string written serializes it, and an
\* OpenvinoVersion constructed with the running build string reads the bytes
WriteThenRead(revision, written) ==
    /\ pc = "codec"
    /\ LET source == StringField(revision, OpenvinoVersion(written))
           st     == [data |-> source, pos |-> 0, fail |-> FALSE]
           ov     == OpenvinoVersion(running)
       IN  codec' =
             IF revision = "part_000"
             THEN LET r == OpenvinoVersionRead(ov, st)
                  IN  [op |-> "write_read", revision |-> revision, written |-> written,
                       source |-> source, ov |-> r.ov, st |-> r.st, overrun |-> 0]
             ELSE LET r == OpenvinoVersionRead_unsized(ov, st)
                  IN  [op |-> "write_read", revision |-> revision, written |-> written,
                       source |-> source, ov |-> r.ov, st |-> r.st, overrun |-> r.overrun]
    /\ pc' = "decoded"
    /\ UNCHANGED <<running, made, stream, call, verdict, factory, parked, container>>

\* make_version applied to two (major, minor) pairs
PackVersions(left, right) ==
    /\ pc = "codec"
    /\ codec' = [op |-> "pack", left |-> left, right |-> right,
                 packedLeft  |-> make_version(left[1], left[2]),
                 packedRight |-> make_version(right[1], right[2])]
    /\ pc' = "packed"
    /\ UNCHANGED <<running, made, stream, call, verdict, factory, parked, container>>

\* a Metadata<2, minor> holding the build string written and the two extra
\* fields is written; a Metadata<2, minor> constructed by the running build
\* reads the bytes that follow the version identifier
LayeredWriteRead(minor, written, dummy_extra, another_dummy) ==
    /\ pc = "codec"
    /\ LET wrote  == Metadata_2_x(minor, written, dummy_extra, another_dummy)
           bytes  == IF minor = 1 THEN MetadataWrite_2_1(wrote) ELSE MetadataWrite_2_0(wrote)
           st     == [data |-> bytes, pos |-> U32 + U32, fail |-> FALSE]
           reader == Metadata_2_x(minor, running,
                                  Filled(Len(dummy_extra), 0), Filled(Len(another_dummy), 0))
           r      == IF minor = 1 THEN MetadataRead_2_1(reader, st)
                     ELSE MetadataRead_2_0(reader, st)
       IN  codec' = [op |-> "layered", minor |-> minor, wrote |-> wrote,
                     bytes |-> bytes, bytes_2_0 |-> MetadataWrite_2_0(wrote),
                     got |-> r.m, st |-> r.st, overrun |-> r.overrun]
    /\ pc' = "decoded"
    /\ UNCHANGED <<running, made, stream, call, verdict, factory, parked, container>>

\* isCompatible() of the variant that LayeredWriteRead decoded
LayeredIsCompatible ==
    /\ pc = "decoded"
    /\ codec.op = "layered"
    /\ codec' = [op |-> "layered_compatible", minor |-> codec.minor,
                 wrote |-> codec.wrote, got |-> codec.got,
                 compatible |-> IF codec.minor = 1
                                THEN isCompatible_2_1(codec.got, running)
                                ELSE isCompatible_2_0(codec.got)]
    /\ pc' = "judged"
    /\ UNCHANGED <<running, made, stream, call, verdict, factory, parked, container>>

\* check_blob_version(blob) of one revision
CheckBlobVersion(revision, blob) ==
    /\ pc = "codec"
    /\ \E o \in check_blob_version(revision, blob, running) :
         codec' = [op |-> "check_blob_version", revision |-> revision, blob |-> blob,
                   threw |-> o.threw, fault |-> o.fault, reads |-> o.reads,
                   overrun |-> o.overrun]
    /\ pc' = "decoded"
    /\ UNCHANGED <<running, made, stream, call, verdict, factory, parked, container>>

NextCodec ==
    \/ \E revision \in ReadRevisions, source \in DecodeSources : DecodeString(revision, source)
    \/ \E source \in DecodeSources : DecodeStringThrows(source)
    \/ \E revision \in CodecRevisions, written \in StoredBuilds : WriteThenRead(revision, written)
    \/ \E left \in Halves \X Halves, right \in Halves \X Halves : PackVersions(left, right)
    \/ \E minor \in {0, 1}, written \in StoredBuilds,
          dummy_extra \in {<<7>>, <<1, 2, 3, 4>>},
          another_dummy \in {<<7>>, <<1, 2, 3, 4>>} :
            LayeredWriteRead(minor, written, dummy_extra, another_dummy)
    \/ LayeredIsCompatible
    \/ \E revision \in {"part_001", "model_version"}, blob \in CheckedBlobs : CheckBlobVersion(revision, blob)

CodecSpec == InitCodec /\ [][NextCodec]_vars

(***************************************************************************)
(* Two calls of read_metadata_from(std::istream&) on two streams, run by   *)
(* two threads.  pc, stream and call are those of the call that runs now;  *)
(* parked keeps the stream and the locals of the calls that do not.  Each  *)
(* stream is first read by a call that runs alone (solo1, then solo2), and *)
(* then a copy of each is read by call1 and call2, whose steps interleave. *)
(***************************************************************************)
\* the bytes of a stream a writer made: header, payload, metadata, size, marker
BlobOf(header, payload, version, build) ==
    HeaderBytes(header) \o PayloadBytes(payload)
    \o MetadataWrite(set_ov_version(
                       set_version(Metadata(NoOpt, ToBytes(header, U64),
                                            ToBytes(payload, U64), build),
                                   version),
                       OpenvinoVersion(build)))
    \o ToBytes(payload, U64) \o MAGIC_BYTES

\* the streams the two threads are given: blobs a writer made, at offset 0
\* and 1, an unknown version, a crafted length field (the largest uint32_t),
\* a foreign blob, a bare marker, a failed stream
PairStreams ==
    {[data |-> BlobOf(0, 1, METADATA_VERSION_1_0, <<97, 98>>), pos |-> 0, fail |-> FALSE],
     [data |-> BlobOf(0, 0, METADATA_VERSION_1_0, <<97>>), pos |-> 0, fail |-> FALSE],
     [data |-> BlobOf(1, 1, METADATA_VERSION_1_0, <<97, 98>>), pos |-> 1, fail |-> FALSE],
     [data |-> BlobOf(0, 1, DummyVersion, <<97, 98>>), pos |-> 0, fail |-> FALSE],
     [data |-> METADATA_VERSION_1_0 \o Filled(U32, 255) \o <<97, 98>>
               \o ToBytes(0, U64) \o MAGIC_BYTES,
      pos |-> 0, fail |-> FALSE],
     [data |-> ElfBlob, pos |-> 0, fail |-> FALSE],
     [data |-> MAGIC_BYTES, pos |-> 0, fail |-> FALSE],
     [data |-> BareTrailer, pos |-> 0, fail |-> TRUE]}

\* a call that has not started, on its stream
Fresh(st) == [pc |-> "call", stream |-> st, call |-> NoCall]

\* the stream and the locals of a call
Ctx(id) ==
    IF parked.active = id
    THEN [pc |-> pc, stream |-> stream, call |-> call]
    ELSE parked.ctx[id]

InitPair ==
    /\ running \in RunningBuilds
    /\ made = NothingMade
    /\ verdict = "none"
    /\ factory = "none"
    /\ codec = "none"
    /\ container = NoContainer
    /\ \E s1 \in PairStreams, s2 \in PairStreams :
         /\ pc = "call"
         /\ stream = s1
         /\ call = NoCall
         /\ parked = [active |-> "solo1", interleaved |-> FALSE,
                      ctx |-> [id \in {"solo1", "solo2", "call1", "call2"} |->
                                 IF id \in {"solo1", "call1"} THEN Fresh(s1) ELSE Fresh(s2)]]

\* a variation in which the locals of read_metadata_from are shared by the
\* calls (static storage): the thread switched to goes on with them
Switch_shared_locals(to) ==
    /\ to # parked.active
    /\ call.result # "crash"
    /\ \/ parked.active = "solo1" /\ to = "solo2" /\ pc = "returned"
       \/ parked.active = "solo2" /\ to = "call1" /\ pc = "returned"
       \/ /\ parked.active \in {"call1", "call2"}
          /\ to \in {"call1", "call2"}
          /\ parked.ctx[to].pc # "returned"
    /\ parked' = [active |-> to,
                  interleaved |-> parked.interleaved
                                  \/ (parked.active \in {"call1", "call2"}
                                      /\ pc \notin {"call", "returned"}),
                  ctx |-> [parked.ctx EXCEPT ![parked.active] =
                             [pc |-> pc, stream |-> stream, call |-> call]]]
    /\ pc' = parked.ctx[to].pc
    /\ stream' = parked.ctx[to].stream
    /\ call' = IF parked.ctx[to].pc = "call" THEN parked.ctx[to].call ELSE call
    /\ UNCHANGED <<running, made, verdict, factory, codec, container>>

\* the scheduler: the call that runs is parked with its stream and its
\* locals and another goes on.  The calls that run alone run to their return,
\* one after the other; call1 and call2 are switched at any step.  A call
\* that brought the process down ends them all.
Switch(to) ==
    /\ to # parked.active
    /\ call.result # "crash"
    /\ \/ parked.active = "solo1" /\ to = "solo2" /\ pc = "returned"
       \/ parked.active = "solo2" /\ to = "call1" /\ pc = "returned"
       \/ /\ parked.active \in {"call1", "call2"}
          /\ to \in {"call1", "call2"}
          /\ parked.ctx[to].pc # "returned"
    /\ parked' = [active |-> to,
                  interleaved |-> parked.interleaved
                                  \/ (parked.active \in {"call1", "call2"}
                                      /\ pc \notin {"call", "returned"}),
                  ctx |-> [parked.ctx EXCEPT ![parked.active] =
                             [pc |-> pc, stream |-> stream, call |-> call]]]
    /\ pc' = parked.ctx[to].pc
    /\ stream' = parked.ctx[to].stream
    /\ call' = parked.ctx[to].call
    /\ UNCHANGED <<running, made, verdict, factory, codec, container>>

NextPair ==
    \/ Enter
    \/ GetFileSize
    \/ ReadMagic
    \/ ReadBlobDataSize
    \/ ReadMetaVersion
    \/ CreateMetadata
    \/ ReadFields
    \/ ReadFieldsBadAlloc
    \/ ReadFieldsNullCrash
    \/ ReadFieldsNullCaught
    \/ Restore
    \/ \E to \in {"solo1", "solo2", "call1", "call2"} : Switch(to)

PairSpec == InitPair /\ [][NextPair]_vars

(***************************************************************************)
(* The two overloads given the same blob: read_metadata_from(stream), then *)
(* read_metadata_from(stream, buffer) with a buffer that holds the bytes   *)
(* of the stream, then read_metadata_from(stream, nullptr), each on a copy *)
(* of the stream as it was handed over.                                    *)
(***************************************************************************)
OverloadIds == {"by_stream", "by_buffer", "by_null_buffer"}

InitOverloads ==
    /\ running \in RunningBuilds
    /\ made = NothingMade
    /\ verdict = "none"
    /\ factory = "none"
    /\ codec = "none"
    /\ container = NoContainer
    /\ \E s \in PairStreams :
         /\ pc = "call"
         /\ stream = s
         /\ call = NoCall
         /\ parked = [active |-> "by_stream", interleaved |-> FALSE,
                      ctx |-> [id \in OverloadIds |-> Fresh(s)]]

\* the call has returned or thrown: the next overload is called
NextOverload(to) ==
    /\ pc = "returned"
    /\ call.result # "crash"
    /\ <<parked.active, to>> \in {<<"by_stream", "by_buffer">>,
                                  <<"by_buffer", "by_null_buffer">>}
    /\ parked' = [parked EXCEPT !.active = to,
                                !.ctx[parked.active] =
                                   [pc |-> pc, stream |-> stream, call |-> call]]
    /\ pc' = parked.ctx[to].pc
    /\ stream' = parked.ctx[to].stream
    /\ call' = parked.ctx[to].call
    /\ UNCHANGED <<running, made, verdict, factory, codec, container>>

NextOverloads ==
    \/ parked.active = "by_stream" /\ Enter
    \/ parked.active = "by_buffer" /\ EnterBuffer
    \/ parked.active = "by_null_buffer" /\ EnterNullBuffer
    \/ GetFileSize
    \/ ReadMagic
    \/ ReadBlobDataSize
    \/ ReadMetaVersion
    \/ CreateMetadata
    \/ ReadFields
    \/ ReadFieldsBadAlloc
    \/ ReadFieldsNullCrash
    \/ ReadFieldsNullCaught
    \/ Restore
    \/ BufferMagic
    \/ BufferBlobDataSize
    \/ BufferMetaVersion
    \/ BufferCreateMetadata
    \/ BufferReadFields
    \/ BufferReadFieldsBadAlloc
    \/ BufferReadFieldsNullCrash
    \/ BufferReadFieldsNullCaught
    \/ \E to \in OverloadIds : NextOverload(to)

OverloadSpec == InitOverloads /\ [][NextOverloads]_vars

(***************************************************************************)
(* Vocabulary of the claims.                                               *)
(***************************************************************************)
Returned == pc \in {"returned", "checked"} /\ call.overload = "stream"

\* the same for the overload that takes the stream and a non-null buffer
ReturnedBuffer == pc \in {"returned", "checked"} /\ call.overload = "buffer"

\* the trailer is what meta.write, the size write and the marker write of the
\* unit tests produce after a payload of made.payload bytes
FromWriter ==
    /\ ~made.foreign
    /\ made.lenField = ToBytes(Len(made.build), U32)
    /\ made.sizeField = ToBytes(made.payload, U64)
    /\ made.marker = MAGIC_BYTES

\* the stream holds the blob and nothing else and was handed over in a good
\* state (its read position is then 0)
WholeStream == made.header = 0 /\ made.junk = 0 /\ ~call.entryFail

\* the string s has exactly the bytes of the sequence b
SameBytes(s, b) == s.size = ToBytes(Len(b), U32) /\ StrData(s, Len(b)) = b

(***************************************************************************)
(* C1: round trip of the version 1.0 variant.  For every build string s    *)
(* (the empty one included), the stream made of Metadata<1.0>::write with  *)
(* s, the 8-byte payload size and the magic marker is read back by         *)
(* read_metadata_from as a non-null variant whose build string has the     *)
(* length and the bytes of s.                                              *)
(***************************************************************************)
C1_RoundTrip ==
    (Returned /\ FromWriter /\ WholeStream /\ made.version = METADATA_VERSION_1_0)
    => /\ call.result = "handle"
       /\ call.storedMeta.ovVersion.size = ToBytes(Len(made.build), U32)
       /\ SameBytes(get_version(call.storedMeta.ovVersion), made.build)

\* the empty build string, read back by a build whose own string is "ab"
C1_Witness ==
    /\ pc = "returned" /\ FromWriter /\ WholeStream
    /\ made.version = METADATA_VERSION_1_0
    /\ made.build = << >> /\ running = <<97, 98>>
    /\ call.result = "handle"
    /\ call.decode = "read"

(***************************************************************************)
(* C2: in a build without NPU_PLUGIN_DEVELOPER_BUILD, is_compatible() on a *)
(* returned variant is true iff the variant's build string has exactly the *)
(* bytes of the running build string (same length, same case, nothing     *)
(* trimmed).                                                               *)
(***************************************************************************)
C2_CompatibleIffSameBuild ==
    (pc = "checked" /\ ~verdict.developerBuild)
    => (verdict.value <=> SameBytes(get_version(call.storedMeta.ovVersion), running))

\* "ab " was stored, "ab" is running, and the verdict is false
C2_Witness ==
    /\ pc = "checked" /\ ~verdict.developerBuild
    /\ FromWriter /\ WholeStream /\ made.version = METADATA_VERSION_1_0
    /\ made.build = <<97, 98, 32>> /\ running = <<97, 98>>
    /\ SameBytes(get_version(call.storedMeta.ovVersion), made.build)
    /\ verdict.value = FALSE

\* the blob: the bytes of the stream from the position it was handed over at
BlobSize == Len(stream.data) - made.header

LastBytes(n) == SubSeq(stream.data, Len(stream.data) - n + 1, Len(stream.data))

EndsWithMarker ==
    /\ BlobSize >= Len(MAGIC_BYTES)
    /\ LastBytes(Len(MAGIC_BYTES)) = MAGIC_BYTES

MinTrailer == Len(MAGIC_BYTES) + U64

\* the 8 bytes before the marker
TailSizeField == SubSeq(LastBytes(MinTrailer), 1, U64)

\* a logged read attempt that touched bytes of the blob only (an attempt on a
\* failed stream touches none)
InsideBlob(r) ==
    \/ r.at = -1
    \/ /\ r.at >= made.header
       /\ IsSmall(r.n)
       /\ r.at + ToNat(r.n) <= Len(stream.data)

(***************************************************************************)
(* C3: for every stream (in a good state) whose last N bytes are not the   *)
(* magic marker, streams of 0 to N bytes included, read_metadata_from      *)
(* returns a null handle and raises no exception.                          *)
(***************************************************************************)
C3_MismatchYieldsNull ==
    (Returned /\ ~call.entryFail /\ ~EndsWithMarker) => call.result = "null"

(***************************************************************************)
(* C4: after every call of read_metadata_from that returns or throws, the  *)
(* stream's read position (tellg) is the one it had before the call.       *)
(***************************************************************************)
C4_PositionRestored ==
    (Returned /\ call.result # "crash") => TellG(stream) = call.entryPos

(***************************************************************************)
(* C5: a blob that ends with the magic marker and whose payload-size field *)
(* is greater than total_size - marker_size - 8 is reported as a malformed *)
(* trailer (an error the caller sees), and no read is made at an offset    *)
(* outside the blob.                                                       *)
(***************************************************************************)
C5_OversizeRejected ==
    (/\ Returned /\ ~call.entryFail
     /\ EndsWithMarker /\ BlobSize >= MinTrailer
     /\ LtW(ToBytes(BlobSize - MinTrailer, U64), TailSizeField))
    => /\ call.result = "throw"
       /\ \A i \in 1..Len(call.reads) : InsideBlob(call.reads[i])

(***************************************************************************)
(* C6: a blob with a well-formed marker and size field whose version       *)
(* identifier has no registered variant (the unit test's 0x7E57.0xAC3D)    *)
(* yields a null handle, without a crash or an exception.                  *)
(***************************************************************************)
C6_UnknownVersionYieldsNull ==
    (Returned /\ FromWriter /\ WholeStream /\ made.version # METADATA_VERSION_1_0)
    => call.result = "null"

(***************************************************************************)
(* C7: each factory returns a variant exactly for its registered (major,   *)
(* minor) pairs, the variant carries that pair, and every other pair (a    *)
(* registered major with an unregistered minor included) yields none.      *)
(***************************************************************************)
Registered_packed == {<<1, 0>>}
Registered_1_0 == {<<1, 0>>}
Registered_2_x == {<<2, 0>>, <<2, 1>>}

C7_FactoryExact ==
    pc = "probed" =>
      /\ (factory.packed # Null) <=> (<<factory.major, factory.minor>> \in Registered_packed)
      /\ factory.packed # Null =>
            /\ get_major(factory.packed.version) = factory.major
            /\ get_minor(factory.packed.version) = factory.minor
      /\ (factory.rev_1_0 # Null) <=> (<<factory.major, factory.minor>> \in Registered_1_0)
      /\ factory.rev_1_0 # Null =>
            factory.rev_1_0.version = [major |-> factory.major, minor |-> factory.minor]
      /\ (factory.rev_2_x # Null) <=> (<<factory.major, factory.minor>> \in Registered_2_x)
      /\ factory.rev_2_x # Null =>
            factory.rev_2_x.version = [major |-> factory.major, minor |-> factory.minor]

(***************************************************************************)
(* C8: a blob of L payload bytes followed by a current-version trailer     *)
(* whose size field is L is read back as a variant whose get_blob_size()   *)
(* is L; when its build string is the running one, the variant is          *)
(* compatible.                                                             *)
(***************************************************************************)
C8_BlobSizeReadBack ==
    (Returned /\ FromWriter /\ WholeStream /\ made.version = METADATA_VERSION_1_0)
    => /\ call.result = "handle"
       /\ get_blob_size(call.storedMeta) = ToBytes(made.payload, U64)
       /\ (pc = "checked" /\ made.build = running) => verdict.value

\* scenario A: 128 payload bytes, the stored build string is the running one
C8_Witness ==
    /\ pc = "checked" /\ FromWriter /\ WholeStream
    /\ made.version = METADATA_VERSION_1_0
    /\ made.payload = 128
    /\ made.build = running
    /\ get_blob_size(call.storedMeta) = ToBytes(128, U64)
    /\ verdict.value

(***************************************************************************)
(* C9, as claimed: a well-formed current-version trailer whose build       *)
(* string differs from the running build yields a non-null handle that     *)
(* holds the stored build string and on which is_compatible() is false.    *)
(***************************************************************************)
Mismatching ==
    /\ FromWriter /\ WholeStream
    /\ made.version = METADATA_VERSION_1_0
    /\ made.build # running

C9_AlwaysIncompatible ==
    (Returned /\ Mismatching)
    => /\ call.result = "handle"
       /\ SameBytes(get_version(call.storedMeta.ovVersion), made.build)
       /\ pc = "checked" => verdict.value = FALSE

(***************************************************************************)
(* C9, amended: ... on which is_compatible() is false, except in a         *)
(* developer build run with NPU_DISABLE_VERSION_CHECK set to a true value, *)
(* where it is true.                                                       *)
(***************************************************************************)
C9_IncompatibleButDecoded ==
    (Returned /\ Mismatching)
    => /\ call.result = "handle"
       /\ SameBytes(get_version(call.storedMeta.ovVersion), made.build)
       /\ pc = "checked" =>
            (verdict.value <=> (verdict.developerBuild /\ verdict.env = "true"))

\* "Ab" was stored, "ab" is running, the variable is set in a default build
C9_Witness ==
    /\ pc = "checked" /\ Mismatching
    /\ made.build = <<65, 98>> /\ running = <<97, 98>>
    /\ ~verdict.developerBuild /\ verdict.env = "true"
    /\ call.result = "handle"
    /\ verdict.value = FALSE

(***************************************************************************)
(* C10, as claimed: read_metadata_from fails with an error the caller sees *)
(* whenever the stream is in a failed state or its size is smaller than    *)
(* marker size + 8, and it then reads no marker or size bytes.             *)
(***************************************************************************)
C10_SmallOrFailedThrows ==
    (Returned /\ (call.entryFail \/ BlobSize < MinTrailer))
    => (call.result = "throw" /\ call.reads = << >>)

(***************************************************************************)
(* C10, amended: read_metadata_from fails with an error the caller sees    *)
(* exactly when the stream is in a failed state at entry, and it then      *)
(* reads no marker or size bytes; a stream in a good state is never        *)
(* rejected for its size: the read of the marker is attempted, and a       *)
(* stream too short to hold the marker yields a null handle.               *)
(***************************************************************************)
C10_ThrowsIffFailedAtEntry ==
    Returned
    => /\ (call.result = "throw") <=> call.entryFail
       /\ call.entryFail => call.reads = << >>
       /\ ~call.entryFail => call.reads # << >>
       /\ (~call.entryFail /\ BlobSize < Len(MAGIC_BYTES)) => call.result = "null"

\* a well-formed blob in a stream that was handed over failed
C10_Witness ==
    /\ pc = "returned" /\ call.entryFail
    /\ FromWriter /\ made.version = METADATA_VERSION_1_0
    /\ call.result = "throw"
    /\ call.reads = << >>

(***************************************************************************)
(* C11: when, after a registered version identifier, the length field of   *)
(* the build string implies more bytes than remain in the metadata region  *)
(* (the decode runs out of bytes or stops on the invalid length),          *)
(* read_metadata_from returns no handle: the partially decoded variant is  *)
(* discarded.                                                              *)
(***************************************************************************)
\* a current-version trailer whose length field exceeds the build string
\* bytes that follow it; size field and marker are well-formed
TruncatedFields ==
    /\ ~made.foreign
    /\ made.version = METADATA_VERSION_1_0
    /\ LtW(ToBytes(Len(made.build), U32), made.lenField)
    /\ made.sizeField = ToBytes(made.payload, U64)
    /\ made.marker = MAGIC_BYTES

C11_TruncatedYieldsNull ==
    (Returned /\ TruncatedFields /\ WholeStream) => call.result = "null"

(***************************************************************************)
(* C12: no parsing failure at or below the trailer level (unknown version, *)
(* truncated or malformed variant fields) leaves the reader as an          *)
(* exception or a crash, in either overload: the outcome is the null       *)
(* handle.                                                                 *)
(***************************************************************************)
\* a trailer the writer produced, with a version identifier no variant is
\* registered for
UnknownVersion == FromWriter /\ made.version # METADATA_VERSION_1_0

C12_ParseFailureYieldsNull ==
    ((Returned \/ ReturnedBuffer) /\ WholeStream /\ (UnknownVersion \/ TruncatedFields))
    => call.result = "null"

(***************************************************************************)
(* C13: OpenvinoVersion::read, for every length field and every number of  *)
(* bytes left in the source, reads no byte past the end of the source and  *)
(* stores no byte past the end of the destination string.                  *)
(***************************************************************************)
C13_ReadInBounds ==
    (pc = "decoded" /\ codec.op = "read")
    => /\ codec.st.pos <= Len(codec.source)
       /\ codec.overrun = 0

(***************************************************************************)
(* C14: the length-prefixed string codec is symmetric.  For every string   *)
(* s, the bytes a variant emits for its build string s are decoded by      *)
(* OpenvinoVersion::read into a string with the bytes and the length of s, *)
(* and the length field read is that length, whatever string (the running  *)
(* build's) the reading object held before.                                *)
(***************************************************************************)
C14_CodecSymmetric ==
    (pc = "decoded" /\ codec.op = "write_read")
    => /\ SameBytes(codec.ov.version, codec.written)
       /\ codec.ov.size = ToBytes(Len(codec.written), U32)
       /\ codec.overrun = 0

(***************************************************************************)
(* C15: packing is a bijection on pairs of 16-bit values: get_major and    *)
(* get_minor of make_version(major, minor) give major and minor back, and  *)
(* two packed values are equal only if their pairs are.                    *)
(***************************************************************************)
C15_PackingBijective ==
    pc = "packed"
    => /\ get_major(codec.packedLeft) = codec.left[1]
       /\ get_minor(codec.packedLeft) = codec.left[2]
       /\ Len(codec.packedLeft) = U32
       /\ \A i \in 1..U32 : codec.packedLeft[i] \in 0..255
       /\ codec.packedLeft = codec.packedRight => codec.left = codec.right

\* the unit test's pair, packed next to the pair with the halves exchanged
C15_Witness ==
    /\ pc = "packed"
    /\ codec.left = <<32343, 44093>> /\ codec.right = <<44093, 32343>>
    /\ codec.packedLeft # codec.packedRight
    /\ get_major(codec.packedLeft) = 32343
    /\ get_minor(codec.packedLeft) = 44093

(***************************************************************************)
(* C16: every blob produced by the write sequence (payload, the variant's  *)
(* write(), the 8-byte payload size, the magic marker) has the marker in   *)
(* its last N bytes, the payload size in the 8 bytes before it, and that   *)
(* value is the offset, from the start of the blob, of the first metadata  *)
(* byte: the packed version identifier stands there.                       *)
(***************************************************************************)
\* the blob: the bytes of the stream after the header
Blob == SubSeq(stream.data, made.header + 1, Len(stream.data))

C16_TrailerInvariant ==
    (FromWriter /\ made.junk = 0)
    => /\ Len(Blob) >= made.payload + U32 + MinTrailer
       /\ SubSeq(Blob, Len(Blob) - Len(MAGIC_BYTES) + 1, Len(Blob)) = MAGIC_BYTES
       /\ SubSeq(Blob, Len(Blob) - MinTrailer + 1, Len(Blob) - Len(MAGIC_BYTES))
            = ToBytes(made.payload, U64)
       /\ SubSeq(Blob, made.payload + 1, made.payload + U32) = made.version
       /\ SubSeq(Blob, made.payload + U32 + 1, Len(Blob) - MinTrailer)
            = ToBytes(Len(made.build), U32) \o made.build

\* 128 payload bytes, the build string "ab ", right after the marker is written
C16_Witness ==
    /\ pc = "w_junk" /\ FromWriter
    /\ made.header = 1 /\ made.payload = 128
    /\ made.version = METADATA_VERSION_1_0
    /\ made.build = <<97, 98, 32>>
    /\ Len(Blob) = 128 + U32 + U32 + 3 + MinTrailer

(***************************************************************************)
(* C17: the bypass of the version check is opt-in.  For a build string     *)
(* that differs from the running build's, is_compatible() is true only in  *)
(* a developer build with NPU_DISABLE_VERSION_CHECK set to a true value;   *)
(* with the variable unset or false, or in a non-developer build, it is    *)
(* false.                                                                  *)
(***************************************************************************)
C17_BypassOptIn ==
    (pc = "checked" /\ ~SameBytes(get_version(call.storedMeta.ovVersion), running))
    => (verdict.value <=> (verdict.developerBuild /\ verdict.env = "true"))

\* a developer build, the variable unset, "Ab" stored and "ab" running: false
C17_Witness ==
    /\ pc = "checked" /\ Mismatching
    /\ made.build = <<65, 98>> /\ running = <<97, 98>>
    /\ verdict.developerBuild /\ verdict.env = "unset"
    /\ verdict.value = FALSE

(***************************************************************************)
(* C18: a zero-length blob and a blob of exactly the marker's size (the    *)
(* marker itself included) are rejected as a malformed trailer, an error   *)
(* the caller sees: no offset is computed below zero (every read is        *)
(* attempted at an offset inside the blob) and no payload size or version  *)
(* that was never read is used (the factory is not reached).               *)
(***************************************************************************)
C18_TinyBlobRejected ==
    (/\ Returned \/ ReturnedBuffer
     /\ ~call.entryFail
     /\ BlobSize \in {0, Len(MAGIC_BYTES)})
    => /\ call.result = "throw"
       /\ \A i \in 1..Len(call.reads) :
            call.reads[i].at >= made.header /\ InsideBlob(call.reads[i])
       /\ ~call.created

(***************************************************************************)
(* C19: in every read attempt the variant's read() is invoked only after   *)
(* the factory has returned a variant for the decoded version identifier,  *)
(* never on an absent variant, and an attempt whose field decode failed    *)
(* produces no handle.                                                     *)
(***************************************************************************)
\* the field decode was started and failed: an exception was caught, or the
\* stream ran out of bytes
DecodeFailed ==
    \/ call.decode = "caught"
    \/ call.decode = "read" /\ stream.fail

C19_DispatchOrder ==
    /\ call.decode # "none" => (call.created /\ call.storedMeta # Null)
    /\ (pc \in {"returned", "checked"} /\ DecodeFailed) => call.result # "handle"

(***************************************************************************)
(* C20: layered variants encode and decode as mirror images.               *)
(* Metadata<2,1>::write emits the bytes of Metadata<2,0>::write followed   *)
(* by its own extra field; for both variants read(), started right after   *)
(* the version identifier, consumes exactly the remaining bytes that       *)
(* write() emitted and restores every field value.                         *)
(***************************************************************************)
C20_LayeredMirror ==
    (pc = "decoded" /\ codec.op = "layered")
    => /\ codec.minor = 1 => codec.bytes = codec.bytes_2_0 \o codec.wrote.another_dummy
       /\ codec.st.pos = Len(codec.bytes) /\ ~codec.st.fail
       /\ codec.got.version = codec.wrote.version
       /\ codec.got.dummy_extra = codec.wrote.dummy_extra
       /\ codec.got.another_dummy = codec.wrote.another_dummy
       /\ codec.got.ovVersion = codec.wrote.ovVersion
       /\ codec.overrun = 0

(***************************************************************************)
(* C21: the layered variants follow the compatibility policy.  For a       *)
(* Metadata<2,0> or Metadata<2,1> variant decoded from a blob,             *)
(* isCompatible() is true only if the recorded build string equals the     *)
(* running build string, and it is true whenever the variant's version is  *)
(* a registered one (2.0 or 2.1) and the build strings are equal.          *)
(***************************************************************************)
C21_LayeredPolicy ==
    (pc = "judged" /\ codec.op = "layered_compatible")
    => /\ codec.compatible => codec.got.ovVersion.version = Str(running)
       /\ (codec.got.version.major = 2 /\ codec.got.version.minor \in {0, 1}
           /\ codec.got.ovVersion.version = Str(running))
          => codec.compatible

FullRead(entry, data) ==
    entry.at >= 0 /\ IsSmall(entry.n) /\ entry.at + ToNat(entry.n) <= Len(data)

\* the call read no uninitialised local, dereferenced no null pointer and
\* asked for no allocation that can fail
Defined(c) ==
    /\ \A i \in 2..Min(3, Len(c.call.reads)) : FullRead(c.call.reads[i], c.stream.data)
    /\ c.call.decode \in {"none", "read"}
    /\ c.call.decode = "read" => IsSmall(c.call.storedMeta.ovVersion.size)

C23_Independent ==
    parked.active # "none"
    => \A k \in {1, 2} :
         LET c == Ctx(IF k = 1 THEN "call1" ELSE "call2")
             s == Ctx(IF k = 1 THEN "solo1" ELSE "solo2")
             SameDraws == /\ c.call.blobDataSize = s.call.blobDataSize
                          /\ c.call.metaVersion = s.call.metaVersion
                          /\ c.call.decode = s.call.decode
                          /\ c.call.result # "crash"
         IN  (c.pc = "returned" /\ s.pc = "returned" /\ (Defined(s) \/ SameDraws))
             => (c.call = s.call /\ c.stream = s.stream)

\* both interleaved calls have returned, one with a handle and one without,
\* after a switch in the middle of a call
C23_Witness ==
    /\ parked.active # "none"
    /\ parked.interleaved
    /\ Ctx("call1").pc = "returned" /\ Ctx("call2").pc = "returned"
    /\ Ctx("call1").call.result = "handle"
    /\ Ctx("call2").call.result = "null"
    /\ Defined(Ctx("solo1")) /\ Defined(Ctx("solo2"))

(***************************************************************************)
(* C24: read_metadata_from(stream) is independent of where the blob starts *)
(* in the stream.  For every initial position P and every blob B that      *)
(* occupies the stream from P to its end, the call checks the marker in    *)
(* the last N bytes of B, reads the size field in the 8 bytes before it    *)
(* and the version identifier at P + payload_size, and returns what it     *)
(* returns for B at position 0 (a handle with B's build string), with      *)
(* get_ov_header_offset() equal to P.                                      *)
(***************************************************************************)
C24_StartIndependent ==
    (Returned /\ FromWriter /\ made.junk = 0 /\ ~call.entryFail
     /\ made.version = METADATA_VERSION_1_0)
    => /\ call.result = "handle"
       /\ SameBytes(get_version(call.storedMeta.ovVersion), made.build)
       /\ get_ov_header_offset(call.storedMeta) = ToBytes(made.header, U64)
       /\ call.reads[1].at = Len(stream.data) - Len(MAGIC_BYTES)
       /\ call.reads[2].at = Len(stream.data) - Len(MAGIC_BYTES) - U64
       /\ call.reads[3].at = made.header + made.payload

(***************************************************************************)
(* C25: the two reader overloads agree.  For every blob,                   *)
(* read_metadata_from(stream, buffer) with a non-null buffer holding the   *)
(* bytes of the stream yields the outcome of read_metadata_from(stream):   *)
(* a null handle in the same cases, an error in the same cases, otherwise  *)
(* a variant with the same build string, payload size and header offset;   *)
(* with a null buffer it returns exactly the result of                     *)
(* read_metadata_from(stream).  Calls whose behaviour is undefined are not *)
(* compared.                                                               *)
(***************************************************************************)
C25_OverloadsAgree ==
    parked.active \in OverloadIds
    => LET s == Ctx("by_stream")
           b == Ctx("by_buffer")
           n == Ctx("by_null_buffer")
           \* the buffer overload read inside the buffer only, dereferenced no
           \* null pointer and asked for no allocation that can fail
           DefinedBuffer ==
               /\ \A i \in 1..Min(3, Len(b.call.reads)) :
                    FullRead(b.call.reads[i], b.stream.data)
               /\ b.call.decode \in {"none", "read"}
               /\ b.call.decode = "read" => IsSmall(b.call.storedMeta.ovVersion.size)
           SameOutcome(x, y) ==
               /\ x.result = y.result
               /\ x.result = "handle"
                  => /\ get_version(x.storedMeta.ovVersion)
                        = get_version(y.storedMeta.ovVersion)
                     /\ get_blob_size(x.storedMeta) = get_blob_size(y.storedMeta)
                     /\ get_ov_header_offset(x.storedMeta)
                        = get_ov_header_offset(y.storedMeta)
       IN  /\ (b.pc = "returned" /\ Defined(s) /\ DefinedBuffer)
              => SameOutcome(s.call, b.call)
           /\ (n.pc = "returned" /\ Defined(s))
              => (SameOutcome(s.call, n.call) /\ n.stream = s.stream)

(***************************************************************************)
(* C26: a variant whose field decode did not succeed is never reported     *)
(* compatible.  If a stream read made by OpenvinoVersion::read fails (the  *)
(* stream is in a failed state, or holds fewer bytes than are asked for),  *)
(* read_metadata_from returns no handle on which is_compatible() is true.  *)
(* The version check is not bypassed (no developer build with              *)
(* NPU_DISABLE_VERSION_CHECK set).  failbit is sticky: a stream that is in  *)
(* a failed state after OpenvinoVersion::read ran had one of its reads     *)
(* fail.                                                                   *)
(***************************************************************************)
C26_FailedDecodeIncompatible ==
    (pc = "checked" /\ call.decode = "read" /\ stream.fail
     /\ ~(verdict.developerBuild /\ envVarStrToBool(verdict.env)))
    => ~verdict.value

(***************************************************************************)
(* C27: check_blob_version rejects by throwing, before it dereferences any *)
(* computed offset, every blob whose trailing 8-byte size field is greater *)
(* than or equal to blob.size() - 8 ("Imported blob is not versioned") and *)
(* every blob whose bytes at that offset are not the delimiter "OVNPU"     *)
(* ("Version header mismatch or missing"); every offset it reads lies      *)
(* inside the blob, also for blobs shorter than 8 bytes.                   *)
(***************************************************************************)
C27_CheckBlobVersionSafe ==
    (pc = "decoded" /\ codec.op = "check_blob_version")
    => LET blob == codec.blob
           \* the size field of a blob of at least 8 bytes
           CheckedSizeField == SubSeq(blob, Len(blob) - U64 + 1, Len(blob))
           \* the size field points at or behind the place of the size field
           SizeFieldTooLarge ==
               Len(blob) >= U64
               /\ ~LtW(CheckedSizeField, ToBytes(Len(blob) - U64, U64))
           \* the bytes at the offset the size field gives are the delimiter
           DelimiterAt ==
               LET off == ToNat(CheckedSizeField)
               IN  SubSeq(blob, off + 1, Min(off + Len(DELIMITER), Len(blob) - U64))
                   = DELIMITER
       IN  /\ ~codec.fault
           /\ \A i \in 1..Len(codec.reads) : FullRead(codec.reads[i], blob)
           /\ SizeFieldTooLarge
              => /\ codec.threw = "Imported blob is not versioned"
                 /\ Len(codec.reads) = 1
           /\ (Len(blob) >= U64 /\ ~SizeFieldTooLarge /\ ~DelimiterAt)
              => codec.threw = "Version header mismatch or missing"

(***************************************************************************)
(* C28: BlobContainerAlignedBuffer::size() equals the underlying buffer    *)
(* size minus the header offset minus the metadata size and never wraps    *)
(* around: for every container built from a reader result, header offset + *)
(* metadata size <= underlying buffer size, so size() <= underlying buffer *)
(* size; release_from_memory() returns false and leaves size() and         *)
(* get_ptr() unchanged.                                                    *)
(***************************************************************************)
C28_ContainerSize ==
    (pc \in {"contained", "released"})
    => LET c == container.blob
           total == Len(c._ownershipBlob)
       IN  /\ IsSmall(c._ovHeaderOffset) /\ IsSmall(c._metadataSize)
           /\ ToNat(c._ovHeaderOffset) + ToNat(c._metadataSize) <= total
           /\ container.size
                = ToBytes(total - ToNat(c._ovHeaderOffset) - ToNat(c._metadataSize), U64)
           /\ ~LtW(ToBytes(total, U64), container.size)
           /\ container.asked
              => /\ ~container.released
                 /\ container.size_after = container.size
                 /\ container.ptr_after = container.ptr

====
